---------------------------- MODULE Spec2Model ----------------------------
(***************************************************************************)
(* A model of three parts of libDAI:                                       *)
(*   - VarSet (include/dai/varset.h): the mapping between joint states of  *)
(*     a set of discrete variables and linear indices;                     *)
(*   - ExactInf (include/dai/exactinf.h): the exact inference engine's     *)
(*     state and its operations;                                           *)
(*   - operator>> for PropertySet (src/properties.cpp): the parser of the  *)
(*     textual "[key=value,...]" format.                                   *)
(* Each part has its own specification over the shared variables; the      *)
(* variables of the other parts stay at their idle values.                 *)
(* A definition named ...Mutant is a faulty variant of the definition that *)
(* follows it; the theorems are expected to fail when it takes its place.  *)
(***************************************************************************)
EXTENDS Integers, Sequences, FiniteSets, TLC

VARIABLES
    \* ---- VarSet
    elems,      \* the range [begin,end) a VarSet was constructed from
    vs,         \* the VarSet: a sequence of Vars, ascending by label
    call,       \* the last operation invoked, with its argument
    ret,        \* what that operation returned or threw
    \* ---- ExactInf
    fg,         \* the factor graph the engine is bound to
    props,      \* ExactInf::props
    beliefsV,   \* ExactInf::_beliefsV
    beliefsF,   \* ExactInf::_beliefsF
    logZ,       \* ExactInf::_logZ
    \* ---- operator>>(std::istream&, PropertySet&)
    s,          \* the token read from the stream
    ps,         \* the target PropertySet
    pc,         \* position of the parser
    token_start,\* the local variable token_start
    parsed      \* the (key, value) pairs found so far, in order

vsVars == <<elems, vs>>
eiVars == <<fg, props, beliefsV, beliefsF, logZ>>
prVars == <<s, ps, pc, token_start, parsed>>
vars   == <<elems, vs, call, ret, fg, props, beliefsV, beliefsF, logZ,
            s, ps, pc, token_start, parsed>>

(***************************************************************************)
(* Bounds of the model.                                                    *)
(***************************************************************************)
MaxLabel == 2       \* variables have labels 0..MaxLabel
MaxCard  == 3       \* a variable has 1..MaxCard states
IndexSlack == 3     \* linear indices run up to the largest nrStates plus this
MaxElems == 3       \* a VarSet is constructed from a range of up to MaxElems Vars
MaxVerbose == 1     \* the verbosity option is 0..MaxVerbose
MaxBody  == 5       \* tokens "[" body "]" have a body of up to MaxBody characters
MaxShort == 3       \* any token of up to MaxShort characters is read as well

Labels == 0..MaxLabel
Cards  == 1..MaxCard

\* A Var: a label and a number of states (dai::Var).
Var(l, n) == [label |-> l, states |-> n]

\* Calls and results.
NoCall == [op |-> "none"]
NoRet  == [thrown |-> "none"]
Returned(v) == [thrown |-> "none", value |-> v]
Thrown(e)   == [thrown |-> e]

\* Idle values of the parts a specification does not exercise.
IdleVarSet  == elems = <<>> /\ vs = <<>>
\* A Real that is the natural logarithm of z is kept as [ln |-> z]; 0 is ln 1.
Ln(z) == [ln |-> z]
IdleEngine  == /\ fg = [vars |-> <<>>, factors |-> <<>>]
               /\ props = [verbose |-> 0]
               /\ beliefsV = <<>> /\ beliefsF = <<>> /\ logZ = Ln(1)
IdleParser  == /\ s = <<>> /\ ps = <<>> /\ pc = "idle"
               /\ token_start = 0 /\ parsed = <<>>

(***************************************************************************)
(*                               VarSet                                    *)
(***************************************************************************)

\* The loop of VarSet::nrStates, from position n with accumulator states.
RECURSIVE nrStatesLoop(_, _, _)
nrStatesLoop(set, n, states) ==
    IF n > Len(set) THEN states
    ELSE nrStatesLoop(set, n + 1, states * set[n].states)

\* VarSet::nrStates
nrStates(set) == nrStatesLoop(set, 1, 1)

\* states.find(*n): the map is keyed by Var, which compares by label.
Find(states, v) == v.label \in DOMAIN states

\* The loop of VarSet::calcState, from position n.
RECURSIVE calcStateLoop(_, _, _, _, _)
calcStateLoop(set, states, n, prod, state) ==
    IF n > Len(set) THEN state
    ELSE calcStateLoop(set, states, n + 1, prod * set[n].states,
                       IF Find(states, set[n])
                       THEN state + prod * states[set[n].label]
                       ELSE state)

\* calcState with prod multiplied before it is used.
calcStateStrideMutant(set, states) ==
    LET RECURSIVE loop(_, _, _)
        loop(n, prod, state) ==
            IF n > Len(set) THEN state
            ELSE loop(n + 1, prod * set[n].states,
                      IF Find(states, set[n])
                      THEN state + (prod * set[n].states) * states[set[n].label]
                      ELSE state)
    IN  loop(1, 1, 0)

\* calcState that advances prod only for the variables found in states.
calcStateSkipMutant(set, states) ==
    LET RECURSIVE loop(_, _, _)
        loop(n, prod, state) ==
            IF n > Len(set) THEN state
            ELSE IF Find(states, set[n])
                 THEN loop(n + 1, prod * set[n].states,
                           state + prod * states[set[n].label])
                 ELSE loop(n + 1, prod, state)
    IN  loop(1, 1, 0)

\* VarSet::calcState
calcState(set, states) == calcStateLoop(set, states, 1, 1, 0)

\* The loop of VarSet::calcStates, from position n; yields the map built and
\* the value linearState has when the loop ends.
RECURSIVE calcStatesLoop(_, _, _, _)
calcStatesLoop(set, n, states, linearState) ==
    IF n > Len(set) THEN [states |-> states, linearState |-> linearState]
    ELSE calcStatesLoop(set, n + 1,
                        [l \in DOMAIN states \cup {set[n].label} |->
                            IF l = set[n].label THEN linearState % set[n].states
                            ELSE states[l]],
                        linearState \div set[n].states)

\* calcStates with the division done before the remainder is taken.
calcStatesSwapMutant(set, linearState) ==
    LET RECURSIVE loop(_, _, _)
        loop(n, states, ls) ==
            IF n > Len(set) THEN [states |-> states, linearState |-> ls]
            ELSE loop(n + 1,
                      [l \in DOMAIN states \cup {set[n].label} |->
                          IF l = set[n].label
                          THEN (ls \div set[n].states) % set[n].states
                          ELSE states[l]],
                      ls \div set[n].states)
        r == loop(1, <<>>, linearState)
    IN  IF r.linearState = 0 THEN Returned(r.states) ELSE Thrown("DAI_ASSERT")

\* calcStates whose assertion lets linearState = 1 pass.
calcStatesWeakAssertMutant(set, linearState) ==
    LET r == calcStatesLoop(set, 1, <<>>, linearState)
    IN  IF r.linearState <= 1 THEN Returned(r.states) ELSE Thrown("DAI_ASSERT")

\* VarSet::calcStates: the map, or the failure of DAI_ASSERT.
calcStates(set, linearState) ==
    LET r == calcStatesLoop(set, 1, <<>>, linearState)
    IN  IF r.linearState = 0 THEN Returned(r.states) ELSE Thrown("DAI_ASSERT")

\* The ascending sequence of the variables with labels in L, c[l] states each.
RECURSIVE AscSeq(_, _)
AscSeq(L, c) ==
    IF L = {} THEN <<>>
    ELSE LET m == CHOOSE x \in L : \A y \in L : x <= y
         IN  <<Var(m, c[m])>> \o AscSeq(L \ {m}, c)

SortedVarSets == UNION { { AscSeq(L, c) : c \in [L -> Cards] } : L \in SUBSET Labels }

\* The state assignments given to set.calcState: any subset of the variables,
\* those outside set included, each with a state of its range (a variable
\* outside set with any state below MaxCard).
Assignments(set) ==
    { a \in UNION { [L -> 0..(MaxCard - 1)] : L \in SUBSET Labels } :
        \A i \in 1..Len(set) :
            set[i].label \in DOMAIN a => a[set[i].label] < set[i].states }

\* The linear indices given to set.calcStates: those of the joint states and
\* as many again beyond them, and IndexSlack more.
Indices(set) == 0..(2 * nrStates(set) + IndexSlack)

InitVarSet ==
    /\ elems = <<>>
    /\ vs \in SortedVarSets
    /\ call = NoCall /\ ret = NoRet
    /\ IdleEngine /\ IdleParser

\* vs.nrStates()
CallNrStates ==
    /\ call.op \in {"none", "VarSet"}
    /\ call' = [op |-> "nrStates"]
    /\ ret' = Returned(nrStates(vs))
    /\ UNCHANGED <<vsVars, eiVars, prVars>>

\* vs.calcState(states): the code has no failing path.
CallCalcStateRejectMutant(states) ==
    /\ call.op \in {"none", "VarSet"}
    /\ call' = [op |-> "calcState", states |-> states, after |-> "none"]
    /\ ret' = IF \E l \in DOMAIN states : \A i \in 1..Len(vs) : vs[i].label # l
              THEN Thrown("IndexOutOfRange")
              ELSE Returned(calcState(vs, states))
    /\ UNCHANGED <<vsVars, eiVars, prVars>>

CallCalcState(states) ==
    /\ call.op \in {"none", "VarSet"}
    /\ call' = [op |-> "calcState", states |-> states, after |-> "none"]
    /\ ret' = Returned(calcState(vs, states))
    /\ UNCHANGED <<vsVars, eiVars, prVars>>

\* vs.calcStates(linearState)
CallCalcStates(linearState) ==
    /\ call.op \in {"none", "VarSet"}
    /\ call' = [op |-> "calcStates", linearState |-> linearState, after |-> "none"]
    /\ ret' = calcStates(vs, linearState)
    /\ UNCHANGED <<vsVars, eiVars, prVars>>

\* vs.calcState( vs.calcStates(i) ): the map calcStates returned is encoded.
CallCalcStateOfResult ==
    /\ call.op = "calcStates" /\ call.after = "none" /\ ret.thrown = "none"
    /\ call' = [op |-> "calcState", states |-> ret.value, after |-> "calcStates",
                first |-> call.linearState]
    /\ ret' = Returned(calcState(vs, ret.value))
    /\ UNCHANGED <<vsVars, eiVars, prVars>>

\* vs.calcStates( vs.calcState(a) ): the index calcState returned is decoded.
CallCalcStatesOfResult ==
    /\ call.op = "calcState" /\ call.after = "none" /\ ret.thrown = "none"
    /\ call' = [op |-> "calcStates", linearState |-> ret.value, after |-> "calcState",
                first |-> call.states]
    /\ ret' = calcStates(vs, ret.value)
    /\ UNCHANGED <<vsVars, eiVars, prVars>>

NextVarSet ==
    \/ CallNrStates
    \/ call = NoCall /\ \E a \in Assignments(vs) : CallCalcState(a)
    \/ call = NoCall /\ \E i \in Indices(vs) : CallCalcStates(i)
    \/ CallCalcStateOfResult
    \/ CallCalcStatesOfResult

SpecVarSet == InitVarSet /\ [][NextVarSet]_vars

(***************************************************************************)
(* Claims about VarSet, checked under SpecVarSet.                          *)
(***************************************************************************)

LabelsOf(set) == { set[i].label : i \in 1..Len(set) }

\* a assigns every variable of set, and nothing else, a state in its range.
FullInRange(set, a) ==
    /\ DOMAIN a = LabelsOf(set)
    /\ \A i \in 1..Len(set) : a[set[i].label] \in 0..(set[i].states - 1)

\* a has an entry for a variable that is not in set.
HasForeign(set, a) == \E l \in DOMAIN a : l \notin LabelsOf(set)

\* S_0 * ... * S_{i-1}, for the variable at position i (positions from 1).
RECURSIVE Stride(_, _)
Stride(set, i) == IF i = 1 THEN 1 ELSE set[i - 1].states * Stride(set, i - 1)

\* s(x): a's entry for x, or 0 when a has none.
StateIn(a, x) == IF x.label \in DOMAIN a THEN a[x.label] ELSE 0

\* The sum over the positions 1..k of s(x_i) * (S_0 * ... * S_{i-1}).
RECURSIVE MixedRadix(_, _, _)
MixedRadix(set, a, k) ==
    IF k = 0 THEN 0
    ELSE StateIn(a, set[k]) * Stride(set, k) + MixedRadix(set, a, k - 1)

\* a extended with state 0 for every variable of set it leaves unspecified.
Extended(set, a) ==
    [l \in DOMAIN a \cup LabelsOf(set) |-> IF l \in DOMAIN a THEN a[l] ELSE 0]

\* a without its entries for variables that are not in set.
Restricted(set, a) == [l \in DOMAIN a \cap LabelsOf(set) |-> a[l]]

\* C1: round-trip law. For every index i below nrStates(vs), calcStates(i)
\* succeeds and calcState of the map it returns is i again.
C1_RoundTrip ==
    /\ (call.op = "calcStates" /\ call.after = "none"
            /\ call.linearState < nrStates(vs))
        => ret.thrown = "none"
    /\ (call.op = "calcState" /\ call.after = "calcStates")
        => ret.value = call.first

C1_Witness ==
    /\ call.op = "calcState" /\ call.after = "calcStates"
    /\ Len(vs) = 3 /\ \A i \in 1..3 : vs[i].states >= 2
    /\ call.first = nrStates(vs) - 1
    /\ ret.value = call.first

\* C2: decode totality. For every full in-range assignment a over vs,
\* calcStates of the index calcState(a) returns succeeds and returns a.
C2_DecodeTotality ==
    (call.op = "calcStates" /\ call.after = "calcState"
        /\ FullInRange(vs, call.first))
    => (ret.thrown = "none" /\ ret.value = call.first)

C2_Witness ==
    /\ call.op = "calcStates" /\ call.after = "calcState"
    /\ Len(vs) = 3 /\ FullInRange(vs, call.first)
    /\ \A i \in 1..3 : vs[i].states >= 2 /\ call.first[vs[i].label] = vs[i].states - 1
    /\ ret.thrown = "none" /\ ret.value = call.first

\* C3: out-of-range rejection. calcStates(i) fails exactly when
\* i >= nrStates(vs), the empty VarSet (nrStates 1) included.
C3_OutOfRange ==
    (call.op = "calcStates" /\ call.after = "none")
    => (ret.thrown = "DAI_ASSERT" <=> call.linearState >= nrStates(vs))

C3_Witness ==
    /\ call.op = "calcStates" /\ call.after = "none"
    /\ Len(vs) >= 2 /\ nrStates(vs) >= 4
    /\ call.linearState = nrStates(vs)
    /\ ret.thrown = "DAI_ASSERT"

\* C4: the encoding is mixed-radix, lowest label fastest, absent variables in
\* state 0: calcState(a) is the sum of s(x_i) * (S_0 * ... * S_{i-1}), and is
\* the index of a extended with state 0 for the unspecified variables.
C4_MixedRadix ==
    (call.op = "calcState" /\ call.after = "none")
    => /\ ret.thrown = "none"
       /\ ret.value = MixedRadix(vs, call.states, Len(vs))
       /\ ret.value = calcState(vs, Extended(vs, call.states))

C4_Witness ==
    /\ call.op = "calcState" /\ call.after = "none"
    /\ Len(vs) = 3 /\ vs[1].states = 2 /\ vs[2].states = 3
    /\ DOMAIN call.states = {vs[3].label} /\ call.states[vs[3].label] = 1
    /\ ret.value = 6

\* C5 as stated: calcState(a) signals IndexOutOfRange whenever a has an entry
\* for a variable that is not in vs.
C5_ForeignRejected ==
    (call.op = "calcState" /\ call.after = "none" /\ HasForeign(vs, call.states))
    => ret.thrown = "IndexOutOfRange"

\* C5 amended: calcState(a) never fails; the entries of a for variables that
\* are not in vs are ignored, so the result is that of a restricted to vs.
C5_ForeignIgnored ==
    (call.op = "calcState" /\ call.after = "none" /\ HasForeign(vs, call.states))
    => /\ ret.thrown = "none"
       /\ ret.value = calcState(vs, Restricted(vs, call.states))

C5_Witness ==
    /\ call.op = "calcState" /\ call.after = "none"
    /\ Len(vs) = 2 /\ HasForeign(vs, call.states)
    /\ \E l \in DOMAIN call.states : l \notin LabelsOf(vs) /\ call.states[l] > 0
    /\ ret.thrown = "none" /\ ret.value > 0

(***************************************************************************)
(*                       Construction of a VarSet                          *)
(***************************************************************************)

\* Var::operator< : variables are ordered by label.
VarLess(a, b) == a.label < b.label

\* std::sort of a vector of Vars: insertion of x into a sorted sequence.
RECURSIVE InsertSorted(_, _)
InsertSorted(x, sorted) ==
    IF sorted = <<>> THEN <<x>>
    ELSE IF VarLess(Head(sorted), x)
         THEN <<Head(sorted)>> \o InsertSorted(x, Tail(sorted))
         ELSE <<x>> \o sorted

RECURSIVE Sort(_)
Sort(range) == IF range = <<>> THEN <<>> ELSE InsertSorted(Head(range), Sort(Tail(range)))

\* std::unique: of each run of equal neighbours the first is kept.
RECURSIVE Unique(_)
Unique(sorted) ==
    IF Len(sorted) <= 1 THEN sorted
    ELSE IF sorted[1].label = sorted[2].label
         THEN Unique(<<sorted[1]>> \o Tail(Tail(sorted)))
         ELSE <<sorted[1]>> \o Unique(Tail(sorted))

\* A SmallSet that keeps the elements in the order they were given.
SmallSetUnsortedMutant(range) ==
    LET RECURSIVE keep(_, _)
        keep(out, n) ==
            IF n > Len(range) THEN out
            ELSE IF \E i \in 1..Len(out) : out[i].label = range[n].label
                 THEN keep(out, n + 1)
                 ELSE keep(Append(out, range[n]), n + 1)
    IN  keep(<<>>, 1)

\* SmallSet<Var>( begin, end, sizeHint ): the range, sorted, duplicates removed.
SmallSet(range) == Unique(Sort(range))

\* The ranges a VarSet is constructed from: up to MaxElems variables in any
\* order, repetitions allowed; a label has one number of states.
Ranges ==
    { r \in UNION { [1..n -> { Var(l, n2) : l \in Labels, n2 \in Cards }] : n \in 0..MaxElems } :
        \A i, j \in 1..Len(r) : r[i].label = r[j].label => r[i].states = r[j].states }

\* VarSet(): the empty set.
InitConstruct ==
    /\ elems = <<>> /\ vs = <<>>
    /\ call = NoCall /\ ret = NoRet
    /\ IdleEngine /\ IdleParser

\* VarSet( begin, end, sizeHint )
ConstructVarSet(range) ==
    /\ call = NoCall
    /\ elems' = range
    /\ vs' = SmallSet(range)
    /\ call' = [op |-> "VarSet"]
    /\ ret' = NoRet
    /\ UNCHANGED <<eiVars, prVars>>

NextConstruct ==
    \/ call = NoCall /\ \E range \in Ranges : ConstructVarSet(range)
    \/ CallNrStates

SpecConstruct == InitConstruct /\ [][NextConstruct]_vars

\* The ranges of up to MaxElems elements that hold the same variables as
\* range, in any order and with any repetitions.
Rearrangements(range) ==
    LET members == { range[i] : i \in 1..Len(range) }
    IN  { r \in UNION { [1..n -> members] : n \in 0..MaxElems } :
            { r[i] : i \in 1..Len(r) } = members }

\* C6: order independence of construction. The VarSet built from a range is
\* the label-ascending sequence of the range's distinct variables, whatever
\* the order and the repetitions in the range; so every rearrangement of the
\* range builds the same sequence, with the same nrStates.
C6_OrderIndependent ==
    (call.op \in {"VarSet", "nrStates"})
    => /\ \A i \in 1..(Len(vs) - 1) : vs[i].label < vs[i + 1].label
       /\ { vs[i] : i \in 1..Len(vs) } = { elems[i] : i \in 1..Len(elems) }
       /\ \A r \in Rearrangements(elems) :
             /\ SmallSet(r) = vs
             /\ nrStates(SmallSet(r)) = nrStates(vs)
       /\ call.op = "nrStates" => ret.value = nrStates(SmallSet(elems))

C6_Witness ==
    /\ call.op = "nrStates"
    /\ Len(elems) = 3 /\ Len(vs) = 2
    /\ elems[1].label > elems[2].label /\ elems[3] = elems[1]
    /\ ret.value = 6

(***************************************************************************)
(*                              ExactInf                                   *)
(* A Factor is [vars, p, den]: a table over the joint states of vars whose *)
(* entry for linear index i is the fraction p[i] / den.                    *)
(***************************************************************************)

Factor(scope, p, den) == [vars |-> scope, p |-> p, den |-> den]

\* A table over scope with every entry n.
Filled(scope, n) == [i \in 0..(nrStates(scope) - 1) |-> n]

RECURSIVE SumOver(_, _)
SumOver(f, D) ==
    IF D = {} THEN 0
    ELSE LET i == CHOOSE x \in D : TRUE IN f[i] + SumOver(f, D \ {i})

RECURSIVE ProductOver(_, _)
ProductOver(f, D) ==
    IF D = {} THEN 1
    ELSE LET i == CHOOSE x \in D : TRUE IN f[i] * ProductOver(f, D \ {i})

\* The factor graphs an engine is constructed over.
VarA == Var(0, 2)
VarB == Var(1, 2)
VarC == Var(1, 3)
VarX == Var(0, 3)
FactorGraphs ==
    { [vars |-> <<VarA, VarB>>,
       factors |-> << [vars |-> <<VarA, VarB>>, p |-> Filled(<<VarA, VarB>>, 1)] >>],
      [vars |-> <<VarX>>,
       factors |-> << [vars |-> <<VarX>>, p |-> [i \in 0..2 |-> <<2, 1, 3>>[i + 1]]] >>],
      [vars |-> <<VarA, VarC>>,
       factors |-> << [vars |-> <<VarA>>, p |-> [i \in 0..1 |-> i + 1]],
                      [vars |-> <<VarA, VarC>>,
                       p |-> [i \in 0..5 |-> <<1, 2, 3, 1, 1, 2>>[i + 1]]] >>] }

\* The option sets given to the constructor; only "verbose" is recognized.
OptionSets ==
    { [verbose |-> v] : v \in 0..MaxVerbose } \cup { [verbose |-> 0, tol |-> 1] }

\* The joint factor: the pointwise product of all factors of the graph.
Joint(g) ==
    [i \in 0..(nrStates(g.vars) - 1) |->
        ProductOver([I \in 1..Len(g.factors) |->
                        g.factors[I].p[calcState(g.factors[I].vars,
                                                 calcStates(g.vars, i).value)]],
                    1..Len(g.factors))]

\* The joint factor summed down to scope.
Marginal(g, joint, scope) ==
    [j \in 0..(nrStates(scope) - 1) |->
        SumOver(joint, { i \in DOMAIN joint :
                            calcState(scope, calcStates(g.vars, i).value) = j })]

\* What the calls record of the engine's past: the last call that changed
\* the engine, and whether run() has completed on it.
Last == IF "last" \in DOMAIN call THEN call.last ELSE "none"
Ran  == IF "ran" \in DOMAIN call THEN call.ran ELSE FALSE

\* ExactInf(): no graph, no beliefs, _logZ(0).
InitExactInf ==
    /\ fg = [vars |-> <<>>, factors |-> <<>>]
    /\ props = [verbose |-> 0]
    /\ beliefsV = <<>> /\ beliefsF = <<>> /\ logZ = Ln(1)
    /\ call = [op |-> "ExactInf()", last |-> "none", ran |-> FALSE] /\ ret = NoRet
    /\ IdleVarSet /\ IdleParser

\* ExactInf( fg, opts ): setProperties( opts ), then construct().
ConstructExactInf(g, opts) ==
    /\ Last = "none"
    /\ IF DOMAIN opts = {"verbose"}
       THEN /\ fg' = g
            /\ props' = [verbose |-> opts.verbose]
            /\ beliefsV' = [i \in 1..Len(g.vars) |->
                               Factor(<<g.vars[i]>>, Filled(<<g.vars[i]>>, 0), 0)]
            /\ beliefsF' = [I \in 1..Len(g.factors) |->
                               Factor(g.factors[I].vars, Filled(g.factors[I].vars, 0), 0)]
            /\ logZ' = Ln(1)
            /\ call' = [op |-> "ExactInf(fg,opts)", last |-> "construct", ran |-> FALSE]
            /\ ret' = NoRet
       ELSE /\ UNCHANGED eiVars
            /\ call' = [op |-> "ExactInf(fg,opts)", last |-> "none", ran |-> FALSE]
            /\ ret' = Thrown("MalformedConfig")
    /\ UNCHANGED <<vsVars, prVars>>

\* init() that leaves _logZ alone.
initKeepsLogZMutant ==
    /\ Last # "none"
    /\ beliefsV' = [i \in DOMAIN beliefsV |->
                       Factor(beliefsV[i].vars, Filled(beliefsV[i].vars, 1), 1)]
    /\ beliefsF' = [I \in DOMAIN beliefsF |->
                       Factor(beliefsF[I].vars, Filled(beliefsF[I].vars, 1), 1)]
    /\ call' = [op |-> "init", last |-> "init", ran |-> Ran]
    /\ ret' = NoRet
    /\ UNCHANGED <<logZ, fg, props, vsVars, prVars>>

\* init(): every belief becomes the table of ones, _logZ becomes 0.
init ==
    /\ Last # "none"
    /\ beliefsV' = [i \in DOMAIN beliefsV |->
                       Factor(beliefsV[i].vars, Filled(beliefsV[i].vars, 1), 1)]
    /\ beliefsF' = [I \in DOMAIN beliefsF |->
                       Factor(beliefsF[I].vars, Filled(beliefsF[I].vars, 1), 1)]
    /\ logZ' = Ln(1)
    /\ call' = [op |-> "init", last |-> "init", ran |-> Ran]
    /\ ret' = NoRet
    /\ UNCHANGED <<fg, props, vsVars, prVars>>

\* run(): joint factor, its total mass Z, and the normalized marginals.
run ==
    /\ Last # "none"
    /\ LET joint == Joint(fg)
           Z == SumOver(joint, DOMAIN joint)
       IN  /\ logZ' = Ln(Z)
           /\ beliefsV' = [i \in 1..Len(fg.vars) |->
                              Factor(<<fg.vars[i]>>, Marginal(fg, joint, <<fg.vars[i]>>), Z)]
           /\ beliefsF' = [I \in 1..Len(fg.factors) |->
                              Factor(fg.factors[I].vars,
                                     Marginal(fg, joint, fg.factors[I].vars), Z)]
    /\ call' = [op |-> "run", last |-> "run", ran |-> TRUE]
    /\ ret' = Returned(0)
    /\ UNCHANGED <<fg, props, vsVars, prVars>>

\* logZ() const { return _logZ; }
CallLogZ ==
    /\ call' = [op |-> "logZ", last |-> Last, ran |-> Ran]
    /\ ret' = Returned(logZ)
    /\ UNCHANGED <<eiVars, vsVars, prVars>>

\* beliefV( i ) const { return _beliefsV[i]; }
beliefV(i) ==
    /\ i \in DOMAIN beliefsV
    /\ call' = [op |-> "beliefV", i |-> i, last |-> Last, ran |-> Ran]
    /\ ret' = Returned(beliefsV[i])
    /\ UNCHANGED <<eiVars, vsVars, prVars>>

\* beliefF( I ) const { return _beliefsF[I]; }
beliefF(I) ==
    /\ I \in DOMAIN beliefsF
    /\ call' = [op |-> "beliefF", i |-> I, last |-> Last, ran |-> Ran]
    /\ ret' = Returned(beliefsF[I])
    /\ UNCHANGED <<eiVars, vsVars, prVars>>

\* init( const VarSet& ) { DAI_THROW(NOT_IMPLEMENTED); }
initVarSet(ns) ==
    /\ call' = [op |-> "init(VarSet)", ns |-> ns, last |-> Last, ran |-> Ran]
    /\ ret' = Thrown("NOT_IMPLEMENTED")
    /\ UNCHANGED <<eiVars, vsVars, prVars>>

\* maxDiff() that reaches its return statement.
maxDiffReturnsMutant ==
    /\ call' = [op |-> "maxDiff", last |-> Last, ran |-> Ran]
    /\ ret' = Returned(0)
    /\ UNCHANGED <<eiVars, vsVars, prVars>>

\* maxDiff() const { DAI_THROW(NOT_IMPLEMENTED); return 0.0; }
maxDiff ==
    /\ call' = [op |-> "maxDiff", last |-> Last, ran |-> Ran]
    /\ ret' = Thrown("NOT_IMPLEMENTED")
    /\ UNCHANGED <<eiVars, vsVars, prVars>>

\* Iterations() const { DAI_THROW(NOT_IMPLEMENTED); return 0; }
Iterations ==
    /\ call' = [op |-> "Iterations", last |-> Last, ran |-> Ran]
    /\ ret' = Thrown("NOT_IMPLEMENTED")
    /\ UNCHANGED <<eiVars, vsVars, prVars>>

NextExactInf ==
    \/ Last = "none" /\ \E g \in FactorGraphs, opts \in OptionSets : ConstructExactInf(g, opts)
    \/ init
    \/ run
    \/ CallLogZ
    \/ \E i \in 1..(MaxLabel + 1) : beliefV(i)
    \/ \E I \in 1..(MaxLabel + 1) : beliefF(I)
    \/ \E k \in 0..Len(fg.vars) : initVarSet(SubSeq(fg.vars, 1, k))
    \/ maxDiff
    \/ Iterations

SpecExactInf == InitExactInf /\ [][NextExactInf]_vars

(***************************************************************************)
(* Claims about ExactInf, checked under SpecExactInf.                      *)
(***************************************************************************)

\* The table init() leaves: every entry equal, not normalized.
IsNeutral(f) ==
    /\ f.den = 1
    /\ \A i \in DOMAIN f.p : f.p[i] = f.p[0]

\* C7: maxDiff(), Iterations() and init(VarSet) can be called in every engine
\* state, fail with NOT_IMPLEMENTED without returning a value, and leave
\* _beliefsV, _beliefsF, _logZ, props and the graph as they were.
C7_NotImplemented ==
    /\ [](ENABLED maxDiff /\ ENABLED Iterations /\ ENABLED initVarSet(<<>>))
    /\ [][ call'.op \in {"maxDiff", "Iterations", "init(VarSet)"}
            => /\ ret'.thrown = "NOT_IMPLEMENTED"
               /\ "value" \notin DOMAIN ret'
               /\ UNCHANGED eiVars ]_vars

C7_Witness ==
    /\ call.op = "init(VarSet)" /\ call.ns # <<>>
    /\ Last = "run" /\ logZ = Ln(6)
    /\ ret = Thrown("NOT_IMPLEMENTED")

\* C8: init() clears state. After init(), until the next run(), every
\* per-variable and per-factor belief is the neutral table and _logZ is 0,
\* and the belief and logZ queries return those, whatever ran before.
C8_InitClears ==
    (Last = "init")
    => /\ \A i \in DOMAIN beliefsV : IsNeutral(beliefsV[i])
       /\ \A I \in DOMAIN beliefsF : IsNeutral(beliefsF[I])
       /\ logZ = Ln(1)
       /\ call.op = "logZ" => ret.value = Ln(1)
       /\ call.op \in {"beliefV", "beliefF"} => IsNeutral(ret.value)

C8_Witness ==
    /\ Last = "init" /\ Ran
    /\ Len(fg.factors) = 2
    /\ call.op = "logZ" /\ ret.value = Ln(1)

(***************************************************************************)
(*          operator>>( std::istream&, PropertySet& )                      *)
(* A std::string is a sequence of characters; positions count from 0 as in *)
(* the code.  A PropertySet is a map from keys to values.                  *)
(***************************************************************************)

Chars == {"[", "]", "=", ",", "a"}

\* s.at(i), s[i]
At(str, i) == str[i + 1]

\* s.substr(pos, n)
substr(str, pos, n) == SubSeq(str, pos + 1, pos + n)

\* PropertySet(): the empty map.
EmptyPropertySet == <<>>

\* ps.Set(key, value)
Set(set, key, value) ==
    [k \in DOMAIN set \cup {key} |-> IF k = key THEN value ELSE set[k]]

\* The whitespace-free tokens the stream delivers.
Strings(n) == UNION { [1..k -> Chars] : k \in 0..n }
Tokens == Strings(MaxShort) \cup { <<"[">> \o b \o <<"]">> : b \in Strings(MaxBody) }

\* The contents the target PropertySet has before the call.
PriorSets == { EmptyPropertySet, Set(EmptyPropertySet, <<"a">>, <<"a", "a">>) }

\* "scan until '=' is found": the value of token_end after the loop.
RECURSIVE scanKey(_, _, _)
scanKey(str, N, token_end) ==
    IF token_end < N /\ At(str, token_end) # "="
    THEN scanKey(str, N, token_end + 1)
    ELSE token_end

\* scanValue that stops at every ',' whatever the level.
scanValueAnyCommaMutant(str, N, token_end, level) ==
    LET RECURSIVE loop(_, _)
        loop(e, l) ==
            IF ~(e < N) THEN [token_end |-> e, level |-> l]
            ELSE IF At(str, e) = "[" THEN loop(e + 1, l + 1)
            ELSE IF At(str, e) = "]" THEN loop(e + 1, l - 1)
            ELSE IF At(str, e) = "," THEN [token_end |-> e, level |-> l]
            ELSE loop(e + 1, l)
    IN  loop(token_end, level)

\* "scan until matching ',' is found": token_end and level after the loop.
RECURSIVE scanValue(_, _, _, _)
scanValue(str, N, token_end, level) ==
    IF ~(token_end < N) THEN [token_end |-> token_end, level |-> level]
    ELSE IF At(str, token_end) = "["
         THEN scanValue(str, N, token_end + 1, level + 1)
    ELSE IF At(str, token_end) = "]"
         THEN scanValue(str, N, token_end + 1, level - 1)
    ELSE IF At(str, token_end) = "," /\ level = 0
         THEN [token_end |-> token_end, level |-> level]
    ELSE scanValue(str, N, token_end + 1, level)

\* The check that s is of the form "[.*]".
FormOK(str) ==
    ~( Len(str) < 2 \/ At(str, 0) # "[" \/ At(str, Len(str) - 1) # "]" )

InitProps ==
    /\ s = <<>>
    /\ ps \in PriorSets
    /\ pc = "call"
    /\ token_start = 0
    /\ parsed = <<>>
    /\ call = [op |-> ">>", prior |-> ps] /\ ret = NoRet
    /\ IdleVarSet /\ IdleEngine

\* operator>> that does not clear ps first.
ReadTokenKeepsMutant(token) ==
    /\ pc = "call"
    /\ s' = token
    /\ parsed' = <<>>
    /\ IF FormOK(token)
       THEN /\ token_start' = 1
            /\ pc' = "loop"
            /\ ret' = NoRet
       ELSE /\ token_start' = 0
            /\ pc' = "thrown"
            /\ ret' = [thrown |-> "MALFORMED_PROPERTY", line |-> 72]
    /\ UNCHANGED <<ps, call, vsVars, eiVars>>

\* ps = PropertySet(); is >> s; the form check; token_start = 1.
ReadToken(token) ==
    /\ pc = "call"
    /\ ps' = EmptyPropertySet
    /\ s' = token
    /\ parsed' = <<>>
    /\ IF FormOK(token)
       THEN /\ token_start' = 1
            /\ pc' = "loop"
            /\ ret' = NoRet
       ELSE /\ token_start' = 0
            /\ pc' = "thrown"
            /\ ret' = [thrown |-> "MALFORMED_PROPERTY", line |-> 72]
    /\ UNCHANGED <<call, vsVars, eiVars>>

\* One iteration of the loop over the key=value pairs.
ParsePair ==
    LET N == Len(s) - 1
        key_end == scanKey(s, N, token_start + 1)
        key == substr(s, token_start, key_end - token_start)
        value_start == key_end + 1
        r == scanValue(s, N, value_start, 0)
        value == substr(s, value_start, r.token_end - value_start)
    IN  /\ pc = "loop"
        /\ token_start < N
        /\ IF key_end = N
           THEN /\ pc' = "thrown"
                /\ ret' = [thrown |-> "MALFORMED_PROPERTY", line |-> 83]
                /\ UNCHANGED <<token_start, ps, parsed>>
           ELSE IF ~(r.level = 0)
           THEN /\ pc' = "thrown"
                /\ ret' = [thrown |-> "MALFORMED_PROPERTY", line |-> 99]
                /\ token_start' = value_start
                /\ UNCHANGED <<ps, parsed>>
           ELSE /\ ps' = Set(ps, key, value)
                /\ parsed' = Append(parsed, [key |-> key, value |-> value])
                /\ token_start' = r.token_end + 1
                /\ pc' = "loop"
                /\ ret' = NoRet
        /\ UNCHANGED <<s, call, vsVars, eiVars>>

\* The loop condition token_start < N fails: return is.
ReturnStream ==
    /\ pc = "loop"
    /\ ~(token_start < Len(s) - 1)
    /\ pc' = "done"
    /\ ret' = Returned("is")
    /\ UNCHANGED <<s, ps, token_start, parsed, call, vsVars, eiVars>>

NextProps ==
    \/ pc = "call" /\ \E token \in Tokens : ReadToken(token)
    \/ ParsePair
    \/ ReturnStream

SpecProps == InitProps /\ [][NextProps]_vars

\* The call runs to its end: nothing suspends the loop.
FairSpecProps == SpecProps /\ WF_vars(ParsePair \/ ReturnStream)

(***************************************************************************)
(* Claims about operator>>, checked under SpecProps and FairSpecProps.     *)
(***************************************************************************)

\* The text between the outer brackets.
Interior(str) == SubSeq(str, 2, Len(str) - 1)

\* The bracket nesting level after str: its '[' minus its ']'.
Depth(str) ==
    Cardinality({ i \in 1..Len(str) : str[i] = "[" })
        - Cardinality({ i \in 1..Len(str) : str[i] = "]" })

\* No ',' of str stands at nesting level 0.
NoTopComma(str) ==
    \A i \in 1..Len(str) : str[i] = "," => Depth(SubSeq(str, 1, i - 1)) # 0

\* b starts with a pair: a key that ends at b[e] = '=', the first '=' after
\* the key's first character, and a value of c characters that returns to
\* level 0, holds no ',' at level 0 and is followed by ',' or ends b.
PairAt(b, e, c) ==
    /\ e \in 2..Len(b) /\ b[e] = "="
    /\ \A i \in 2..(e - 1) : b[i] # "="
    /\ c \in 0..(Len(b) - e)
    /\ (e + c = Len(b) \/ b[e + c + 1] = ",")
    /\ Depth(SubSeq(b, e + 1, e + c)) = 0
    /\ NoTopComma(SubSeq(b, e + 1, e + c))

StartsWithPair(b) == \E e \in 1..Len(b), c \in 0..Len(b) : PairAt(b, e, c)

\* The pairs a body starts with, and whether they make up all of it (ok) or
\* are followed by text that no pair starts.
RECURSIVE PairsOf(_)
PairsOf(b) ==
    IF b = <<>> THEN [ok |-> TRUE, pairs |-> <<>>]
    ELSE IF ~StartsWithPair(b) THEN [ok |-> FALSE, pairs |-> <<>>]
    ELSE LET ec == CHOOSE x \in (1..Len(b)) \X (0..Len(b)) : PairAt(b, x[1], x[2])
             e == ec[1]
             c == ec[2]
             rest == PairsOf(SubSeq(b, e + c + 2, Len(b)))
         IN  [ok |-> rest.ok,
              pairs |-> << [key |-> SubSeq(b, 1, e - 1),
                            value |-> SubSeq(b, e + 1, e + c)] >> \o rest.pairs]

WellFormed(str) == FormOK(str) /\ PairsOf(Interior(str)).ok

\* The text of pairs, each pair followed by a ','.
RECURSIVE Joined(_)
Joined(pairs) ==
    IF pairs = <<>> THEN <<>>
    ELSE Head(pairs).key \o <<"=">> \o Head(pairs).value \o <<",">> \o Joined(Tail(pairs))

\* set holds exactly the keys of pairs, each with the value of its last pair.
Holds(set, pairs) ==
    /\ DOMAIN set = { pairs[i].key : i \in 1..Len(pairs) }
    /\ \A i \in 1..Len(pairs) :
          (\A j \in (i + 1)..Len(pairs) : pairs[j].key # pairs[i].key)
          => set[pairs[i].key] = pairs[i].value

Finished == pc \in {"done", "thrown"}

\* C9: operator>> on one token s throws MALFORMED_PROPERTY if s is not of the
\* form "[...]", if a key is not followed by '=' before the final ']', or if
\* the nesting level is not 0 at the end of a value; otherwise it succeeds
\* and stores every key with its value, a value ending only at a ',' at
\* nesting level 0 or at the final ']'; "[]" yields the empty PropertySet.
C9_Parse ==
    /\ Finished => (pc = "done" <=> WellFormed(s))
    /\ pc = "thrown" =>
          /\ ret.thrown = "MALFORMED_PROPERTY"
          /\ ret.line = 72 <=> ~FormOK(s)
          /\ ret.line = 83 =>
                \A i \in (token_start + 1)..(Len(s) - 2) : At(s, i) # "="
          /\ ret.line = 99 =>
                /\ At(s, token_start - 1) = "="
                /\ Depth(SubSeq(s, token_start + 1, Len(s) - 1)) # 0
    /\ pc = "done" =>
          /\ parsed = PairsOf(Interior(s)).pairs
          /\ Holds(ps, parsed)
          /\ \A i \in 1..Len(parsed) :
                /\ parsed[i].key # <<>>
                /\ Depth(parsed[i].value) = 0
                /\ NoTopComma(parsed[i].value)
          /\ Interior(s) \in { Joined(parsed),
                               SubSeq(Joined(parsed), 1, Len(Joined(parsed)) - 1) }
          /\ s = <<"[", "]">> => ps = EmptyPropertySet

C9_Witness ==
    /\ pc = "done"
    /\ s = <<"[", "a", "=", "[", ",", "]", "]">>
    /\ DOMAIN ps = { <<"a">> }
    /\ ps[<<"a">>] = <<"[", ",", "]">>

\* C10: operator>> discards the previous contents of ps on every call, also
\* on the calls that fail; when it throws, ps holds exactly the pairs parsed
\* completely before the offending token; and the scan terminates, the token
\* start position growing on every iteration of the loop.
C10_DiscardsAndTerminates ==
    /\ [](pc # "call" => Holds(ps, parsed))
    /\ [](pc = "thrown" =>
            IF ret.line = 72 THEN parsed = <<>>
            ELSE LET body == Interior(s)
                     done == Joined(parsed)
                 IN  /\ parsed = PairsOf(body).pairs
                     /\ Len(done) < Len(body)
                     /\ SubSeq(body, 1, Len(done)) = done
                     /\ ~StartsWithPair(SubSeq(body, Len(done) + 1, Len(body))))
    /\ [](pc = "loop" => token_start \in 1..Len(s))
    /\ [][(pc = "loop" /\ pc' = "loop") => token_start' > token_start]_vars
    /\ (pc = "loop" ~> Finished)

C10_Witness ==
    /\ pc = "thrown" /\ ret.line = 83
    /\ s = <<"[", "a", "=", ",", "a", "]">>
    /\ call.prior # EmptyPropertySet
    /\ ps # call.prior /\ ps # EmptyPropertySet
    /\ DOMAIN ps = { <<"a">> } /\ ps[<<"a">>] = <<>>

=============================================================================
